---- MODULE Spec2Model ----
(***************************************************************************)
(* Model of the request builders of @basementscripts/dynamodb-utils        *)
(* (utils.ts: toAttributeValue, buildScanInput, buildUpdateInput,          *)
(* buildQueryInput).                                                       *)
(*                                                                         *)
(* Representation                                                          *)
(*   - a JavaScript string that is inspected or concatenated (attribute    *)
(*     names, placeholders, expressions) is a sequence of one-character    *)
(*     strings, so charAt, template literals and join are computed;        *)
(*   - an optional property is None (absent / undefined) or Some(v);       *)
(*   - a JavaScript object used as a map is the sequence of its entries    *)
(*     [k, v] in Object.entries order, keys pairwise distinct;             *)
(*   - a runtime value is a record tagged with its typeof class.           *)
(***************************************************************************)
EXTENDS Integers, Sequences, FiniteSets, TLC

VARIABLES
    request,    \* the request object handed to the builders
    now,        \* the reading Date.now() returns
    result,     \* what the last builder call returned (or that it threw)
    log,        \* the calls made so far, in the runs that compare calls
    store,      \* the table behind the client: hash key value -> item
    calls,      \* the DynamoDb calls of the clients, each with its position
    bulk        \* a Bulkify object: its size and its records

vars == <<request, now, result, log, store, calls, bulk>>

----------------------------------------------------------------------------
(* Bounds of the model *)

MaxParams == 2      \* most entries of a params map
MaxOutput == 2      \* most names of an output list
MaxTicks == 1       \* how often the clock advances
MaxCalls == 2       \* most calls kept in the log
MaxClients == 2     \* callers of the DynamoDb facade at the same time
MaxAdds == 3        \* most Bulkify.add calls in a run
ClockStart == 9     \* first clock reading (9, 10: one and two digits)

----------------------------------------------------------------------------
(* Optional values *)

None == <<>>
Some(v) == <<v>>
IsSome(o) == o # <<>>
Get(o) == o[1]

----------------------------------------------------------------------------
(* Strings as character sequences *)

charAt(s, i) == IF i + 1 <= Len(s) THEN <<s[i + 1]>> ELSE <<>>

Digits == <<"0", "1", "2", "3", "4", "5", "6", "7", "8", "9">>

RECURSIVE NatToString(_)
NatToString(n) ==
    IF n < 10 THEN <<Digits[n + 1]>>
    ELSE NatToString(n \div 10) \o <<Digits[(n % 10) + 1]>>

\* variant: the sign is dropped
NumberToString_Unsigned(n) == IF n < 0 THEN NatToString(0 - n) ELSE NatToString(n)

NumberToString(n) == IF n < 0 THEN <<"-">> \o NatToString(0 - n) ELSE NatToString(n)

RECURSIVE join(_, _)
join(parts, sep) ==
    IF Len(parts) = 0 THEN <<>>
    ELSE IF Len(parts) = 1 THEN parts[1]
    ELSE parts[1] \o sep \o join(Tail(parts), sep)

\* the string literals of the templates
Colon == <<":">>
Hash == <<"#">>
Eq == <<" ", "=", " ">>
CommaSp == <<",", " ">>
AndLower == <<" ", "a", "n", "d", " ">>
Space == <<" ">>
SetSp == <<"S", "E", "T", " ">>
ContainsOpen == <<"c", "o", "n", "t", "a", "i", "n", "s", "(">>
CloseParen == <<")">>
And == <<"A", "n", "d">>
Or == <<"O", "r">>

----------------------------------------------------------------------------
(* JavaScript objects as ordered entry lists *)

Keys(obj) == [i \in 1..Len(obj) |-> obj[i].k]
KeySet(obj) == {obj[i].k : i \in 1..Len(obj)}
hasOwnProperty(obj, key) == \E i \in 1..Len(obj) : obj[i].k = key
Lookup(obj, key) == obj[CHOOSE i \in 1..Len(obj) : obj[i].k = key].v

\* obj[key] = value: an existing key keeps its position, a new key is appended
SetProp(obj, key, value) ==
    IF hasOwnProperty(obj, key)
    THEN [i \in 1..Len(obj) |-> IF obj[i].k = key THEN [k |-> key, v |-> value] ELSE obj[i]]
    ELSE Append(obj, [k |-> key, v |-> value])

isEmpty(obj) == Len(obj) = 0

----------------------------------------------------------------------------
(* Runtime values *)

Undefined == [type |-> "undefined"]
Null == [type |-> "null"]
StringV(s) == [type |-> "string", s |-> s]
NumberV(n) == [type |-> "number", n |-> n]
BooleanV(b) == [type |-> "boolean", b |-> b]
ArrayV(items) == [type |-> "array", items |-> items]
ObjectV(entries) == [type |-> "object", entries |-> entries]
FunctionV == [type |-> "function"]

\* variant: the last element instead of the first
FirstElement_Last(value) ==
    IF Len(value.items) > 0 THEN value.items[Len(value.items)] ELSE Undefined

\* value[0] of an array: undefined when the array is empty
FirstElement(value) == IF Len(value.items) > 0 THEN value.items[1] ELSE Undefined

----------------------------------------------------------------------------
(* The Value Encoder *)

RECURSIVE toAttributeValue(_)
toAttributeValue(value) ==
    CASE value.type \in {"undefined", "null"} -> [NULL |-> TRUE]
      [] value.type = "string" -> [S |-> value.s]
      [] value.type = "number" -> [N |-> NumberToString(value.n)]
      [] value.type = "boolean" -> [BOOL |-> value.b]
      [] value.type = "array" ->
            [L |-> [i \in 1..Len(value.items) |-> toAttributeValue(value.items[i])]]
      [] value.type = "object" ->
            [M |-> [i \in 1..Len(value.entries) |->
                      [k |-> value.entries[i].k,
                       v |-> toAttributeValue(value.entries[i].v)]]]

\* variant: an absent value is rejected
toAttributeValueThrows_Undefined(value) == value.type \in {"function", "undefined"}

\* TRUE when toAttributeValue(value) ends in
\* throw new Error(`Unsupported type for value: ${value}`)
RECURSIVE toAttributeValueThrows(_)
toAttributeValueThrows(value) ==
    CASE value.type = "array" ->
            \E i \in 1..Len(value.items) : toAttributeValueThrows(value.items[i])
      [] value.type = "object" ->
            \E i \in 1..Len(value.entries) : toAttributeValueThrows(value.entries[i].v)
      [] OTHER -> value.type \notin {"undefined", "null", "string", "number", "boolean"}

----------------------------------------------------------------------------
(* Reserved words *)

\* the members of the security category that the attribute names below can hit
security == { <<"k", "e", "y">>, <<"u", "s", "e", "r">>, <<"r", "o", "l", "e">> }

allReservedWords == security

----------------------------------------------------------------------------
(* Outcome of a call *)

Returned(v) == [threw |-> FALSE, value |-> v]
Threw(message) == [threw |-> TRUE, error |-> message]

\* some value of the map makes toAttributeValue throw
AnyUnsupported(params) == \E i \in 1..Len(params) : toAttributeValueThrows(params[i].v)

\* a call of the Value Encoder
toAttributeValueCall(value) ==
    IF toAttributeValueThrows(value)
    THEN Threw("Unsupported type for value")
    ELSE Returned(toAttributeValue(value))

----------------------------------------------------------------------------
(* buildQueryInput *)

\* variant: the second letter is appended whether or not ':' + first letter is taken
QueryFilter_SecondLetterAlways(values, attr) ==
    Colon \o charAt(attr, 0) \o charAt(attr, 1)

\* the value placeholder of attr, given the values bound so far
QueryFilter(values, attr) ==
    IF hasOwnProperty(values, Colon \o charAt(attr, 0))
    THEN Colon \o charAt(attr, 0) \o charAt(attr, 1)
    ELSE Colon \o charAt(attr, 0)

\* variant: every name is aliased
QueryToken_AlwaysAliased(attr) == Hash \o attr

\* the name token of attr in the key condition
QueryToken(attr) ==
    IF attr \in allReservedWords THEN Hash \o attr ELSE attr

\* one iteration of paramAttrs.forEach
QueryStep(acc, attr, value) ==
    LET filter == QueryFilter(acc.values, attr)
        token == QueryToken(attr)
    IN  [values |-> SetProp(acc.values, filter, toAttributeValue(value)),
         names |-> IF attr \in allReservedWords
                   THEN SetProp(acc.names, token, attr)
                   ELSE acc.names,
         exprs |-> Append(acc.exprs, token \o Eq \o filter)]

RECURSIVE QueryLoop(_, _, _)
QueryLoop(params, i, acc) ==
    IF i > Len(params) THEN acc
    ELSE QueryLoop(params, i + 1, QueryStep(acc, params[i].k, params[i].v))

\* variant: the limit is passed on whenever it is supplied, 0 included
QueryLimit_WheneverSupplied(req) == req.limit

\* if (request.limit) options.Limit = request.limit
QueryLimit(req) ==
    IF IsSome(req.limit) /\ Get(req.limit) # 0 THEN req.limit ELSE None

buildQueryInput(req) ==
    IF ~IsSome(req.params)
    THEN Threw("TypeError")     \* Object.keys(undefined)
    ELSE IF AnyUnsupported(Get(req.params))
    THEN Threw("Unsupported type for value")
    ELSE
        LET acc == QueryLoop(Get(req.params), 1,
                             [values |-> <<>>, names |-> <<>>, exprs |-> <<>>])
        IN  Returned(
              [TableName |-> req.tableName,
               IndexName |-> req.indexName,
               ExpressionAttributeValues |-> Some(acc.values),
               ConsistentRead |-> TRUE,
               Limit |-> QueryLimit(req),
               ExclusiveStartKey |-> req.nextToken,
               ExpressionAttributeNames |-> IF ~isEmpty(acc.names)
                                            THEN Some(acc.names) ELSE None,
               KeyConditionExpression |-> join(acc.exprs, AndLower)])

----------------------------------------------------------------------------
(* buildUpdateInput *)

\* { ...request.params, updatedAt: ts }
updatedAt == <<"u", "p", "d", "a", "t", "e", "d", "A", "t">>
WithUpdatedAt(params, ts) == SetProp(params, updatedAt, NumberV(ts))

\* variant: only a reserved name is aliased, as in buildQueryInput
UpdateNameKey_ReservedOnly(key) == IF key \in allReservedWords THEN Hash \o key ELSE key

UpdateNameKey(key) == Hash \o key

\* variant: the placeholder carries no position
UpdateValueKey_NoIndex(key, index) == Colon \o charAt(key, 0)

UpdateValueKey(key, index) == Colon \o charAt(key, 0) \o NumberToString(index)

\* one iteration of Object.entries(params).forEach; index counts from 0
UpdateStep(acc, key, value, index) ==
    LET nameKey == UpdateNameKey(key)
        valueKey == UpdateValueKey(key, index)
    IN  [names |-> SetProp(acc.names, nameKey, key),
         values |-> SetProp(acc.values, valueKey, toAttributeValue(value)),
         exprs |-> Append(acc.exprs, nameKey \o Eq \o valueKey)]

RECURSIVE UpdateLoop(_, _, _)
UpdateLoop(params, i, acc) ==
    IF i > Len(params) THEN acc
    ELSE UpdateLoop(params, i + 1, UpdateStep(acc, params[i].k, params[i].v, i - 1))

\* the local validators of utils.ts: TRUE when the validator throws
validateTableNameThrows(tableName) == ~IsSome(tableName) \/ Len(Get(tableName)) = 0
validateKeyThrows(key) == Len(key) = 0

\* variant: an empty object is accepted
validateObjectThrows_Never(obj) == FALSE

validateObjectThrows(obj) == Len(obj) = 0
validateTimestampThrows(ts) == ts = 0

buildUpdateInput(req, ts) ==
    IF validateTableNameThrows(req.tableName)
    THEN Threw("TableName is required")
    ELSE IF IsSome(req.key) /\ validateKeyThrows(Get(req.key))
    THEN Threw("Key is required and must not be empty")
    ELSE IF IsSome(req.params) /\ validateObjectThrows(Get(req.params))
    THEN Threw("Params is required and must not be empty")
    ELSE IF validateTimestampThrows(ts)
    THEN Threw("Invalid timestamp")
    ELSE IF IsSome(req.params) /\ AnyUnsupported(Get(req.params))
    THEN Threw("Unsupported type for value")
    ELSE
        LET params == WithUpdatedAt(IF IsSome(req.params) THEN Get(req.params) ELSE <<>>, ts)
            acc == UpdateLoop(params, 1, [names |-> <<>>, values |-> <<>>, exprs |-> <<>>])
        IN  Returned(
              [TableName |-> req.tableName,
               Key |-> req.key,
               ReturnValues |-> "ALL_NEW",
               ExpressionAttributeNames |-> Some(acc.names),
               ExpressionAttributeValues |-> Some(acc.values),
               UpdateExpression |-> SetSp \o join(acc.exprs, CommaSp)])

----------------------------------------------------------------------------
(* buildScanInput *)

ScanToken(attr) == Hash \o attr

\* variant: the placeholder carries no position
ScanFilter_NoIndex(attr, index) == Colon \o charAt(attr, 0)

ScanFilter(attr, index) == Colon \o charAt(attr, 0) \o NumberToString(index)

\* request.output.map(...): the projection tokens and their aliases
\* variant: an output name that is also a key of params is left out
ScanProjection_WithoutParams(req) ==
    LET keys == IF IsSome(req.params) THEN KeySet(Get(req.params)) ELSE {}
        kept == SelectSeq(Get(req.output), LAMBDA attr : attr \notin keys)
    IN  [i \in 1..Len(kept) |-> ScanToken(kept[i])]

ScanProjection(req) ==
    [i \in 1..Len(Get(req.output)) |-> ScanToken(Get(req.output)[i])]

RECURSIVE ScanProjectionNames(_, _, _)
ScanProjectionNames(output, i, names) ==
    IF i > Len(output) THEN names
    ELSE ScanProjectionNames(output, i + 1, SetProp(names, ScanToken(output[i]), output[i]))

\* one iteration of Object.entries(request.params).forEach; index counts from 0
ScanStep(acc, attr, value, index) ==
    LET token == ScanToken(attr)
        filter == ScanFilter(attr, index)
        names == SetProp(acc.names, token, attr)
    IN  IF value.type = "undefined"
        THEN [acc EXCEPT !.names = names]
        ELSE IF value.type = "array"
        THEN [names |-> names,
              values |-> SetProp(acc.values, filter, toAttributeValue(FirstElement(value))),
              exprs |-> Append(acc.exprs, ContainsOpen \o token \o CommaSp \o filter \o CloseParen)]
        ELSE IF value.type \in {"string", "number"}
        THEN [names |-> names,
              values |-> SetProp(acc.values, filter, toAttributeValue(value)),
              exprs |-> Append(acc.exprs, token \o Eq \o filter)]
        ELSE [acc EXCEPT !.names = names]

RECURSIVE ScanLoop(_, _, _)
ScanLoop(params, i, acc) ==
    IF i > Len(params) THEN acc
    ELSE ScanLoop(params, i + 1, ScanStep(acc, params[i].k, params[i].v, i - 1))

\* request.options?.filterExpressionContext || 'And'
filterExpressionContext(req) ==
    IF IsSome(req.options) /\ IsSome(Get(req.options).filterExpressionContext)
       /\ Len(Get(Get(req.options).filterExpressionContext)) > 0
    THEN Get(Get(req.options).filterExpressionContext)
    ELSE And

\* Select of the scan request
ScanSelect(req) == "ALL_ATTRIBUTES"

buildScanInput(req) ==
    LET names0 == IF IsSome(req.output)
                  THEN Some(ScanProjectionNames(Get(req.output), 1, <<>>))
                  ELSE None
        acc == IF IsSome(req.params)
               THEN ScanLoop(Get(req.params), 1,
                             [names |-> IF IsSome(names0) THEN Get(names0) ELSE <<>>,
                              values |-> <<>>, exprs |-> <<>>])
               ELSE [names |-> <<>>, values |-> <<>>, exprs |-> <<>>]
    IN  Returned(
          [TableName |-> req.tableName,
           Limit |-> IF IsSome(req.limit) /\ Get(req.limit) # 0 THEN Get(req.limit) ELSE 1000,
           Select |-> ScanSelect(req),
           ExclusiveStartKey |-> IF IsSome(req.startKey) /\ Len(Get(req.startKey)) > 0
                                 THEN req.startKey ELSE None,
           ProjectionExpression |-> IF IsSome(req.output)
                                    THEN Some(join(ScanProjection(req), CommaSp))
                                    ELSE None,
           ExpressionAttributeNames |-> IF IsSome(req.params) THEN Some(acc.names) ELSE names0,
           ExpressionAttributeValues |-> IF IsSome(req.params) THEN Some(acc.values) ELSE None,
           FilterExpression |-> IF IsSome(req.params) /\ Len(acc.exprs) > 0
                                THEN Some(join(acc.exprs, Space \o filterExpressionContext(req) \o Space))
                                ELSE None])

----------------------------------------------------------------------------
(* buildPutInput, buildDeleteInput, buildGetInput *)

RECURSIVE PutItem(_, _, _)
PutItem(params, i, acc) ==
    IF i > Len(params) THEN acc
    ELSE PutItem(params, i + 1, SetProp(acc, params[i].k, toAttributeValue(params[i].v)))

buildPutInput(req) ==
    IF ~IsSome(req.params)
    THEN Threw("TypeError")     \* Object.entries(undefined)
    ELSE IF AnyUnsupported(Get(req.params))
    THEN Threw("Unsupported type for value")
    ELSE Returned([TableName |-> req.tableName, Item |-> PutItem(Get(req.params), 1, <<>>)])

buildDeleteInput(req) == Returned([TableName |-> req.tableName, Key |-> req.key])

\* variant: only the first attribute of the key is passed on
buildGetInput_FirstKeyAttribute(req) ==
    Returned([TableName |-> req.tableName,
              Key |-> IF IsSome(req.key) /\ Len(Get(req.key)) > 1
                      THEN Some(<<Get(req.key)[1]>>) ELSE req.key])

buildGetInput(req) == Returned([TableName |-> req.tableName, Key |-> req.key])

----------------------------------------------------------------------------
(* The requests the model hands to the builders *)

n_a == <<"a">>
n_ab == <<"a", "b">>
n_abc == <<"a", "b", "c">>
n_key == <<"k", "e", "y">>
n_Key == <<"K", "e", "y">>
n_updatedAt == updatedAt
n_id == <<"i", "d">>

AttrNames == {n_a, n_ab, n_abc, n_key, n_Key, n_updatedAt}
FewNames == {n_a, n_key}
OutputNames == {n_a, n_ab}

v_x == StringV(<<"x">>)
v_y == StringV(<<"y">>)
v_25 == NumberV(25)
v_0 == NumberV(0)
v_minus == NumberV(0 - 7)
v_empty == StringV(<<>>)
v_list == ArrayV(<<v_x, v_y>>)

PlainValues == {v_x, v_25}
FilterValues == {v_x, v_25, v_list, BooleanV(TRUE)}
AllValues == {v_x, v_25, v_list, BooleanV(TRUE), Null, Undefined, ArrayV(<<>>),
              ObjectV(<<[k |-> n_a, v |-> v_x]>>), v_0, v_minus, v_empty}

\* the maps of exactly n entries over the names and values, as entry lists
MapsOfSize(names, values, n) ==
    {m \in [1..n -> [k : names, v : values]] :
        \A i, j \in 1..n : i < j => m[i].k # m[j].k}

Maps(names, values, max) == UNION {MapsOfSize(names, values, n) : n \in 0..max}

Lists(names, max) == UNION {[1..n -> names] : n \in 0..max}

Optional(S) == {None} \cup {Some(x) : x \in S}

\* an already tagged key { id: { S: 'x' } }
TaggedKey == <<[k |-> n_id, v |-> [S |-> <<"x">>]]>>

\* a composite key { id: { S: 'x' }, a: { N: '25' } }
CompositeKey == <<[k |-> n_id, v |-> [S |-> <<"x">>]], [k |-> n_a, v |-> [N |-> <<"2", "5">>]]>>

BaseRequest ==
    [tableName |-> Some("test"), indexName |-> None, key |-> Some(TaggedKey),
     params |-> None, output |-> None, options |-> None,
     limit |-> None, startKey |-> None, nextToken |-> None]

\* params maps over all the names
ParamRequests ==
    {[BaseRequest EXCEPT !.params = p] :
        p \in Optional(Maps(AttrNames, PlainValues, MaxParams))}

\* params maps over every kind of value
ValueRequests ==
    {[BaseRequest EXCEPT !.params = Some(p)] : p \in Maps(FewNames, AllValues, MaxParams)}

\* scans with a projection and a joiner
ScanRequests ==
    {[BaseRequest EXCEPT !.params = p, !.output = o, !.options = c] :
        p \in Optional(Maps(FewNames, FilterValues, MaxParams)),
        o \in Optional(Lists(OutputNames, MaxOutput)),
        c \in Optional({[filterExpressionContext |-> j] : j \in Optional({And, Or})})}

\* the remaining request fields
FieldRequests ==
    {[BaseRequest EXCEPT !.tableName = t, !.key = k, !.params = p, !.limit = l,
                         !.startKey = s, !.indexName = x, !.nextToken = s2] :
        t \in {None, Some(""), Some("test")},
        k \in {None, Some(<<>>), Some(TaggedKey), Some(CompositeKey)},
        p \in {None, Some(<<>>), Some(<<[k |-> n_a, v |-> v_x]>>)},
        l \in {None, Some(0), Some(10)},
        s \in {None, Some("k")},
        x \in {None, Some("index")},
        s2 \in {None, Some(TaggedKey)}}

Requests == ParamRequests \cup ValueRequests \cup ScanRequests \cup FieldRequests

----------------------------------------------------------------------------
(* The state machine: a request, the clock, and builder calls on the request *)

NoBulk == [size |-> 0, records |-> <<>>]

Idle == [op |-> "none", pc |-> "idle", sent |-> <<>>, answers |-> <<>>, outcome |-> None,
         local |-> None]
NoCalls == [c \in 1..MaxClients |-> Idle]

NoResult == [op |-> "none", out |-> Returned(<<>>), ts |-> 0]

Init ==
    /\ request \in Requests
    /\ now = ClockStart
    /\ result = NoResult
    /\ log = <<>>
    /\ store = <<>>
    /\ calls = NoCalls
    /\ bulk = NoBulk

BuildScanInput ==
    /\ result' = [op |-> "buildScanInput", out |-> buildScanInput(request), ts |-> 0]
    /\ UNCHANGED <<request, now, log, store, calls, bulk>>

BuildQueryInput ==
    /\ result' = [op |-> "buildQueryInput", out |-> buildQueryInput(request), ts |-> 0]
    /\ UNCHANGED <<request, now, log, store, calls, bulk>>

\* const ts = Date.now()
BuildUpdateInput ==
    /\ result' = [op |-> "buildUpdateInput", out |-> buildUpdateInput(request, now), ts |-> now]
    /\ UNCHANGED <<request, now, log, store, calls, bulk>>

BuildPutInput ==
    /\ result' = [op |-> "buildPutInput", out |-> buildPutInput(request), ts |-> 0]
    /\ UNCHANGED <<request, now, log, store, calls, bulk>>

BuildGetInput ==
    /\ result' = [op |-> "buildGetInput", out |-> buildGetInput(request), ts |-> 0]
    /\ UNCHANGED <<request, now, log, store, calls, bulk>>

BuildDeleteInput ==
    /\ result' = [op |-> "buildDeleteInput", out |-> buildDeleteInput(request), ts |-> 0]
    /\ UNCHANGED <<request, now, log, store, calls, bulk>>

\* time passes between calls
Tick ==
    /\ now < ClockStart + MaxTicks
    /\ now' = now + 1
    /\ UNCHANGED <<request, result, log, store, calls, bulk>>

Next ==
    \/ BuildScanInput
    \/ BuildQueryInput
    \/ BuildUpdateInput
    \/ BuildPutInput
    \/ BuildGetInput
    \/ BuildDeleteInput
    \/ Tick

Spec == Init /\ [][Next]_vars

----------------------------------------------------------------------------
(* Calls of the Value Encoder on its own *)

v_true == BooleanV(TRUE)
v_false == BooleanV(FALSE)
v_25text == StringV(<<"2", "5">>)
v_10 == NumberV(10)

EncoderValues ==
    {v_x, v_y, v_empty, v_25text, v_25, v_0, v_minus, v_10, v_true, v_false, Null, Undefined,
     FunctionV,
     ArrayV(<<>>), ArrayV(<<v_x>>), v_list, ArrayV(<<v_y, v_x>>), ArrayV(<<v_x, v_25>>),
     ArrayV(<<Null>>), ArrayV(<<ArrayV(<<v_x>>)>>), ArrayV(<<FunctionV>>),
     ObjectV(<<>>), ObjectV(<<[k |-> n_a, v |-> v_x]>>), ObjectV(<<[k |-> n_ab, v |-> v_x]>>),
     ObjectV(<<[k |-> n_a, v |-> v_25]>>),
     ObjectV(<<[k |-> n_a, v |-> v_x], [k |-> n_ab, v |-> v_minus]>>),
     ObjectV(<<[k |-> n_a, v |-> ObjectV(<<[k |-> n_a, v |-> v_list]>>)]>>),
     ObjectV(<<[k |-> n_a, v |-> Null]>>)}

InitEncode ==
    /\ request = BaseRequest
    /\ now = ClockStart
    /\ result = NoResult
    /\ log = <<>>
    /\ store = <<>>
    /\ calls = NoCalls
    /\ bulk = NoBulk

ToAttributeValue(value) ==
    /\ Len(log) < MaxCalls
    /\ result' = [op |-> "toAttributeValue", out |-> toAttributeValueCall(value), ts |-> 0]
    /\ log' = Append(log, [op |-> "toAttributeValue", arg |-> value, after |-> value,
                           out |-> result'.out])
    /\ UNCHANGED <<request, now, store, calls, bulk>>

NextEncode == \E value \in EncoderValues : ToAttributeValue(value)

SpecEncode == InitEncode /\ [][NextEncode]_vars

----------------------------------------------------------------------------
(* Several builder calls, on the requests of several callers, in any order *)

Builders == {"buildPutInput", "buildGetInput", "buildDeleteInput",
             "buildScanInput", "buildQueryInput", "buildUpdateInput"}

Apply(op, req, ts) ==
    CASE op = "buildPutInput" -> buildPutInput(req)
      [] op = "buildGetInput" -> buildGetInput(req)
      [] op = "buildDeleteInput" -> buildDeleteInput(req)
      [] op = "buildScanInput" -> buildScanInput(req)
      [] op = "buildQueryInput" -> buildQueryInput(req)
      [] op = "buildUpdateInput" -> buildUpdateInput(req, ts)

CallRequests ==
    {[BaseRequest EXCEPT !.params = Some(<<[k |-> n_a, v |-> v_x]>>)],
     [BaseRequest EXCEPT !.params = Some(<<[k |-> n_key, v |-> v_25], [k |-> n_ab, v |-> v_list]>>),
                         !.output = Some(<<n_a>>)],
     [BaseRequest EXCEPT !.params = Some(<<[k |-> updatedAt, v |-> v_0]>>),
                         !.key = Some(CompositeKey)]}

InitCalls ==
    /\ request \in CallRequests
    /\ now = ClockStart
    /\ result = NoResult
    /\ log = <<>>
    /\ store = <<>>
    /\ calls = NoCalls
    /\ bulk = NoBulk

\* one synchronous builder call; the log keeps the request as it was handed
\* in and as it is after the call
Call(op) ==
    /\ Len(log) < MaxCalls
    /\ UNCHANGED <<request, now, store, calls, bulk>>
    /\ result' = [op |-> op, out |-> Apply(op, request, now),
                  ts |-> IF op = "buildUpdateInput" THEN now ELSE 0]
    /\ log' = Append(log, [op |-> op, arg |-> request, after |-> request',
                           out |-> result'.out])

\* the next call is another caller's, with its own request
NewRequest ==
    /\ \E r \in CallRequests : r # request /\ request' = r
    /\ UNCHANGED <<now, result, log, store, calls, bulk>>

NextCalls ==
    \/ \E op \in Builders : Call(op)
    \/ NewRequest
    \/ Tick

SpecCalls == InitCalls /\ [][NextCalls]_vars

----------------------------------------------------------------------------
(* errors.ts: the error classes *)

DynamoDbErrorClasses ==
    {"ItemExistsError", "ItemNotFoundError", "QueryError", "CreateError", "DeleteError",
     "UpdateError", "ValidationError"}

ErrorOf(class, message) == [class |-> class, message |-> message]

\* e instanceof class
InstanceOf(e, class) ==
    \/ e.class = class
    \/ class = "DynamoDbError" /\ e.class \in DynamoDbErrorClasses
    \/ class = "Error"

ValidationError(message) == ErrorOf("ValidationError", message)

----------------------------------------------------------------------------
(* utils/validation.ts: each validator gives the error it throws, or None *)

AllowedTableNameChars ==
    {"a", "b", "c", "d", "e", "f", "g", "h", "i", "j", "k", "l", "m", "n", "o", "p", "q",
     "r", "s", "t", "u", "v", "w", "x", "y", "z",
     "A", "B", "C", "D", "E", "F", "G", "H", "I", "J", "K", "L", "M", "N", "O", "P", "Q",
     "R", "S", "T", "U", "V", "W", "X", "Y", "Z",
     "0", "1", "2", "3", "4", "5", "6", "7", "8", "9", "_", ".", "-"}

validateRequired(value, name) ==
    IF ~IsSome(value) THEN Some(ValidationError(name \o " is required")) ELSE None

validateNonEmptyString(value, name) ==
    IF IsSome(validateRequired(value, name)) THEN validateRequired(value, name)
    ELSE IF \A i \in 1..Len(Get(value)) : Get(value)[i] = " "
    THEN Some(ValidationError(name \o " cannot be empty"))
    ELSE None

\* variant: any non-empty name is accepted
validation_validateTableName_AnyName(value) == validateNonEmptyString(value, "Table name")

\* /^[a-zA-Z0-9_.-]{3,255}$/
validation_validateTableName(value) ==
    IF IsSome(validateNonEmptyString(value, "Table name"))
    THEN validateNonEmptyString(value, "Table name")
    ELSE IF ~(/\ Len(Get(value)) >= 3
              /\ Len(Get(value)) <= 255
              /\ \A i \in 1..Len(Get(value)) : Get(value)[i] \in AllowedTableNameChars)
    THEN Some(ValidationError("Table name must be between 3 and 255 characters"))
    ELSE None

\* typeof value !== 'object' || value === null || Array.isArray(value): of
\* the values a request holds, only an absent one is not an object
validation_validateObject(value, name) ==
    IF ~IsSome(value) THEN Some(ValidationError(name \o " must be an object")) ELSE None

validation_validateKey(value) ==
    IF IsSome(validation_validateObject(value, "Key"))
    THEN validation_validateObject(value, "Key")
    ELSE IF Len(Get(value)) = 0 THEN Some(ValidationError("Key must not be empty"))
    ELSE None

\* value < 0 || value > Date.now()
validation_validateTimestamp(value, clock) ==
    IF value < 0 \/ value > clock
    THEN Some(ValidationError("Timestamp must be a positive number and not in the future"))
    ELSE None

validateLimit(value) ==
    IF value < 1 \/ value > 1000
    THEN Some(ValidationError("Limit must be between 1 and 1000"))
    ELSE None

validateNextToken(value) ==
    IF IsSome(validation_validateObject(value, "Next token"))
    THEN validation_validateObject(value, "Next token")
    ELSE IF Len(Get(value)) = 0 THEN Some(ValidationError("Next token must not be empty"))
    ELSE None

\* validateFilterExpression, validateProjectionExpression and
\* validateKeyConditionExpression differ in the name only
validateExpression(value, name) ==
    IF IsSome(validateNonEmptyString(Some(value), name))
    THEN validateNonEmptyString(Some(value), name)
    ELSE IF Len(value) > 255
    THEN Some(ValidationError(name \o " must not exceed 255 characters"))
    ELSE IF \E i \in 1..Len(value) : value[i] = "@"
    THEN Some(ValidationError(name \o " contains invalid characters"))
    ELSE None

\* request.filters.forEach(validateFilterExpression): the first error thrown
RECURSIVE validateEach(_, _, _)
validateEach(values, name, i) ==
    IF i > Len(values) THEN None
    ELSE IF IsSome(validateExpression(values[i], name)) THEN validateExpression(values[i], name)
    ELSE validateEach(values, name, i + 1)

----------------------------------------------------------------------------
(* The table behind the client *)

\* the table's hash key attribute
HashKey == n_id

KeyValue(attrs) == IF hasOwnProperty(attrs, HashKey) THEN Some(Lookup(attrs, HashKey)) ELSE None

\* the attribute list without the entry of the key
RECURSIVE RemoveProp(_, _)
RemoveProp(obj, key) ==
    IF Len(obj) = 0 THEN <<>>
    ELSE IF obj[1].k = key THEN RemoveProp(Tail(obj), key)
    ELSE <<obj[1]>> \o RemoveProp(Tail(obj), key)

\* the client can answer a command only if it names the hash key
Servable(command) ==
    CASE command.cmd = "PutCommand" -> IsSome(KeyValue(command.input.Item))
      [] command.cmd = "QueryCommand" -> TRUE
      [] OTHER -> IsSome(command.input.Key) /\ IsSome(KeyValue(Get(command.input.Key)))

StoredItem(table, key) ==
    IF hasOwnProperty(table, key) THEN Some(Lookup(table, key)) ELSE None

\* SET #k0 = :v0, ...: the i-th alias and the i-th placeholder belong together
RECURSIVE Assign(_, _, _, _)
Assign(item, names, values, i) ==
    IF i > Len(names) THEN item
    ELSE Assign(SetProp(item, names[i].v, values[i].v), names, values, i + 1)

Updated(table, input) ==
    LET key == Get(KeyValue(Get(input.Key)))
        old == IF hasOwnProperty(table, key) THEN Lookup(table, key) ELSE Get(input.Key)
    IN  Assign(old, Get(input.ExpressionAttributeNames),
               Get(input.ExpressionAttributeValues), 1)

\* what the client throws when it rejects a command
ClientError == ErrorOf("Error", "client error")

----------------------------------------------------------------------------
(* DynamoDb.ts: the calls *)

Resolved(v) == [rejected |-> FALSE, value |-> v]
Rejected(e) == [rejected |-> TRUE, error |-> e]

Command(cmd, input) == [cmd |-> cmd, input |-> input]

Begin(op) == [Idle EXCEPT !.op = op]

\* await this.client.send(cmd)
Send(call, pc, command, local) ==
    [call EXCEPT !.pc = pc, !.sent = Append(@, command), !.local = local]

Awaited(call) == call.sent[Len(call.sent)]

\* the client has answered the awaited command, or rejected it
Answered(call, ok) == [call EXCEPT !.answers = Append(@, IF ok THEN "ok" ELSE "rejected")]

Settle(call, outcome) == [call EXCEPT !.pc = "done", !.outcome = Some(outcome)]

\* the catch blocks: every Error becomes the operation's own error
QueryCatch(e) == ErrorOf("QueryError", e.message)
CreateCatch(e) == IF InstanceOf(e, "ItemExistsError") THEN e ELSE ErrorOf("CreateError", e.message)
DeleteCatch(e) == ErrorOf("DeleteError", e.message)
UpdateCatch(e) == ErrorOf("UpdateError", e.message)
FindRecordCatch(e) == ErrorOf("ItemNotFoundError", "Item not found")

ItemExistsError == ErrorOf("ItemExistsError", "Item already exists")

\* the first error thrown by a list of checks, or None
RECURSIVE FirstError(_)
FirstError(checks) ==
    IF Len(checks) = 0 THEN None
    ELSE IF IsSome(checks[1]) THEN checks[1]
    ELSE FirstError(Tail(checks))

Quote == <<"\"">>

\* JSON.stringify of a runtime value (no character of the requests needs escaping)
RECURSIVE JSONstringify(_)
JSONstringify(value) ==
    CASE value.type = "string" -> Quote \o value.s \o Quote
      [] value.type = "number" -> NumberToString(value.n)
      [] value.type = "boolean" -> IF value.b THEN <<"t", "r", "u", "e">>
                                   ELSE <<"f", "a", "l", "s", "e">>
      [] value.type = "array" ->
            <<"[">> \o join([i \in 1..Len(value.items) |-> JSONstringify(value.items[i])], <<",">>)
                    \o <<"]">>
      [] value.type = "object" ->
            <<"{">> \o join([i \in 1..Len(value.entries) |->
                                Quote \o value.entries[i].k \o Quote \o Colon
                                      \o JSONstringify(value.entries[i].v)], <<",">>)
                    \o <<"}">>
      [] OTHER -> <<"n", "u", "l", "l">>

(* query *)

\* variant: nothing is validated
queryValidation_None(req) == None

queryValidation(req) ==
    FirstError(<<
        validation_validateTableName(req.tableName),
        IF IsSome(req.key) THEN validation_validateKey(req.key) ELSE None,
        IF IsSome(req.limit) /\ Get(req.limit) # 0 THEN validateLimit(Get(req.limit)) ELSE None,
        IF IsSome(req.nextToken) THEN validateNextToken(req.nextToken) ELSE None,
        IF IsSome(req.filters)
            THEN validateEach(Get(req.filters), "Filter expression", 1) ELSE None,
        IF IsSome(req.output)
            THEN validateEach(Get(req.output), "Projection expression", 1) ELSE None,
        IF IsSome(req.query)
            THEN validateExpression(JSONstringify(ObjectV(Get(req.query))),
                                    "Key condition expression")
            ELSE None >>)

query(req) ==
    IF IsSome(queryValidation(req))
    THEN Settle(Begin("query"), Rejected(QueryCatch(Get(queryValidation(req)))))
    ELSE IF buildQueryInput(req).threw
    THEN Settle(Begin("query"), Rejected(QueryCatch(ErrorOf("Error", buildQueryInput(req).error))))
    ELSE Send(Begin("query"), "query.send",
              Command("QueryCommand", buildQueryInput(req).value), None)

Query(c) ==
    /\ calls[c].pc = "idle"
    /\ calls' = [calls EXCEPT ![c] = query(request)]
    /\ UNCHANGED <<request, now, result, log, store, bulk>>

Items(table) == [i \in 1..Len(table) |-> table[i].v]

\* return results.Items || []
QuerySettled(c) ==
    /\ calls[c].pc = "query.send"
    /\ \E response \in {"rejects", "items", "no items"} :
          calls' = [calls EXCEPT ![c] =
              CASE response = "rejects" -> Settle(Answered(@, FALSE), Rejected(QueryCatch(ClientError)))
                [] response = "items" -> Settle(Answered(@, TRUE), Resolved(Items(store)))
                [] response = "no items" -> Settle(Answered(@, TRUE), Resolved(<<>>))]
    /\ UNCHANGED <<request, now, result, log, store, bulk>>

(* queryWithPagination *)

queryWithPagination(req) ==
    IF IsSome(queryValidation(req))
    THEN Settle(Begin("queryWithPagination"), Rejected(QueryCatch(Get(queryValidation(req)))))
    ELSE IF buildQueryInput(req).threw
    THEN Settle(Begin("queryWithPagination"),
                Rejected(QueryCatch(ErrorOf("Error", buildQueryInput(req).error))))
    ELSE Send(Begin("queryWithPagination"), "queryWithPagination.send",
              Command("QueryCommand", buildQueryInput(req).value), None)

QueryWithPagination(c) ==
    /\ calls[c].pc = "idle"
    /\ calls' = [calls EXCEPT ![c] = queryWithPagination(request)]
    /\ UNCHANGED <<request, now, result, log, store, bulk>>

\* return { items: results.Items || [], nextToken: results.LastEvaluatedKey }
QueryWithPaginationSettled(c) ==
    /\ calls[c].pc = "queryWithPagination.send"
    /\ \E response \in {"rejects", "items", "no items"}, last \in {None, Some(TaggedKey)} :
          calls' = [calls EXCEPT ![c] =
              CASE response = "rejects" -> Settle(Answered(@, FALSE), Rejected(QueryCatch(ClientError)))
                [] response = "items" ->
                      Settle(Answered(@, TRUE), Resolved([items |-> Items(store), nextToken |-> last]))
                [] response = "no items" ->
                      Settle(Answered(@, TRUE), Resolved([items |-> <<>>, nextToken |-> last]))]
    /\ UNCHANGED <<request, now, result, log, store, bulk>>

(* queryRecord *)

queryRecordValidation(req) ==
    FirstError(<<
        validation_validateTableName(req.tableName),
        IF IsSome(req.key) THEN validation_validateKey(req.key) ELSE None,
        IF IsSome(req.output)
            THEN validateEach(Get(req.output), "Projection expression", 1) ELSE None,
        IF IsSome(req.query)
            THEN validateExpression(JSONstringify(ObjectV(Get(req.query))),
                                    "Key condition expression")
            ELSE None >>)

\* request.key && !request.query && !request.filters
UsesGet(req) == IsSome(req.key) /\ ~IsSome(req.query) /\ ~IsSome(req.filters)

\* { ...request, limit: 1 }
queryRequest(req) == [req EXCEPT !.limit = Some(1)]

queryRecord(req) ==
    IF IsSome(queryRecordValidation(req))
    THEN Settle(Begin("queryRecord"), Rejected(QueryCatch(Get(queryRecordValidation(req)))))
    ELSE IF UsesGet(req)
    THEN Send(Begin("queryRecord"), "queryRecord.get",
              Command("GetCommand",
                      buildGetInput([tableName |-> req.tableName, key |-> req.key]).value), None)
    ELSE IF buildQueryInput(queryRequest(req)).threw
    THEN Settle(Begin("queryRecord"),
                Rejected(QueryCatch(ErrorOf("Error", buildQueryInput(queryRequest(req)).error))))
    ELSE Send(Begin("queryRecord"), "queryRecord.query",
              Command("QueryCommand", buildQueryInput(queryRequest(req)).value), None)

QueryRecord(c) ==
    /\ calls[c].pc = "idle"
    /\ calls' = [calls EXCEPT ![c] = queryRecord(request)]
    /\ UNCHANGED <<request, now, result, log, store, bulk>>

\* return result.Item
QueryRecordGetSettled(c) ==
    /\ calls[c].pc = "queryRecord.get"
    /\ \E ok \in BOOLEAN :
          /\ ok => Servable(Awaited(calls[c]))
          /\ calls' = [calls EXCEPT ![c] =
                IF ok THEN Settle(Answered(@, TRUE), Resolved(StoredItem(store,
                                        Get(KeyValue(Get(Awaited(@).input.Key))))))
                ELSE Settle(Answered(@, FALSE), Rejected(QueryCatch(ClientError)))]
    /\ UNCHANGED <<request, now, result, log, store, bulk>>

\* results.Items?.[0]
FirstItem(items) == IF IsSome(items) /\ Len(Get(items)) > 0 THEN Some(Get(items)[1]) ELSE None

QueryRecordQuerySettled(c) ==
    /\ calls[c].pc = "queryRecord.query"
    /\ \E response \in {"rejects", "items", "no Items"} :
          calls' = [calls EXCEPT ![c] =
              CASE response = "rejects" -> Settle(Answered(@, FALSE), Rejected(QueryCatch(ClientError)))
                [] response = "items" -> Settle(Answered(@, TRUE), Resolved(FirstItem(Some(Items(store)))))
                [] response = "no Items" -> Settle(Answered(@, TRUE), Resolved(FirstItem(None)))]
    /\ UNCHANGED <<request, now, result, log, store, bulk>>

(* findRecord *)

findRecordValidation(req) ==
    FirstError(<<
        validation_validateTableName(req.tableName),
        IF IsSome(req.key) THEN validation_validateKey(req.key) ELSE None >>)

findRecord(call, req, pc) ==
    IF IsSome(findRecordValidation(req))
    THEN Settle(call, Rejected(FindRecordCatch(Get(findRecordValidation(req)))))
    ELSE Send(call, pc, Command("GetCommand", buildGetInput(req).value), None)

FindRecord(c) ==
    /\ calls[c].pc = "idle"
    /\ calls' = [calls EXCEPT ![c] = findRecord(Begin("findRecord"), request, "findRecord.send")]
    /\ UNCHANGED <<request, now, result, log, store, bulk>>

\* what a Get answers: the item under the key, or no Item
GetItem(table, command) == StoredItem(table, Get(KeyValue(Get(command.input.Key))))

\* variant: if (!results.Item) throw
findRecordReturn_ThrowWhenMissing(item) ==
    IF IsSome(item) THEN Resolved(item) ELSE Rejected(FindRecordCatch(ClientError))

\* return results.Item
findRecordReturn(item) == Resolved(item)

FindRecordSettled(c) ==
    /\ calls[c].pc = "findRecord.send"
    /\ \E ok \in BOOLEAN :
          /\ ok => Servable(Awaited(calls[c]))
          /\ calls' = [calls EXCEPT ![c] =
                IF ok THEN Settle(Answered(@, TRUE), findRecordReturn(GetItem(store, Awaited(@))))
                ELSE Settle(Answered(@, FALSE), Rejected(FindRecordCatch(ClientError)))]
    /\ UNCHANGED <<request, now, result, log, store, bulk>>

(* create *)

n_createdAt == <<"c", "r", "e", "a", "t", "e", "d", "A", "t">>

\* a tagged key value such as { S: 'x' }, seen as the plain object it is
AsObject(av) ==
    IF "S" \in DOMAIN av THEN ObjectV(<<[k |-> <<"S">>, v |-> StringV(av.S)]>>)
    ELSE ObjectV(<<[k |-> <<"N">>, v |-> StringV(av.N)]>>)

\* { ...acc, ...entries }
RECURSIVE Spread(_, _, _)
Spread(acc, entries, i) ==
    IF i > Len(entries) THEN acc
    ELSE Spread(SetProp(acc, entries[i].k, entries[i].v), entries, i + 1)

\* { ...request.params, ...request.key, createdAt: ts, updatedAt: ts }
CreateParams(req, ts) ==
    LET params == IF IsSome(req.params) THEN Get(req.params) ELSE <<>>
        key == IF IsSome(req.key)
               THEN [i \in 1..Len(Get(req.key)) |->
                        [k |-> Get(req.key)[i].k, v |-> AsObject(Get(req.key)[i].v)]]
               ELSE <<>>
    IN  Spread(Spread(params, key, 1),
               <<[k |-> n_createdAt, v |-> NumberV(ts)], [k |-> updatedAt, v |-> NumberV(ts)]>>, 1)

createValidation(req) ==
    FirstError(<<
        validation_validateTableName(req.tableName),
        IF IsSome(req.key) THEN validation_validateKey(req.key) ELSE None,
        IF IsSome(req.params) THEN validation_validateObject(req.params, "Params") ELSE None >>)

\* from const ts = Date.now() to the dispatch of the Put
createPut(call, req, ts) ==
    LET options == [tableName |-> req.tableName, key |-> req.key,
                    params |-> Some(CreateParams(req, ts))]
    IN  IF IsSome(validation_validateTimestamp(ts, ts))
        THEN Settle(call, Rejected(CreateCatch(Get(validation_validateTimestamp(ts, ts)))))
        ELSE IF buildPutInput(options).threw
        THEN Settle(call, Rejected(CreateCatch(ErrorOf("Error", buildPutInput(options).error))))
        ELSE Send(call, "create.put", Command("PutCommand", buildPutInput(options).value),
                  options.params)

\* variant: a failed existence check ends the call
createUnchecked_Abort(call, req, ts) == Settle(call, Rejected(CreateCatch(FindRecordCatch(ClientError))))

\* the inner catch: an existence check that failed is ignored
createUnchecked(call, req, ts) == createPut(call, req, ts)

\* up to the first await: validation, then the existence check if a key is given
create(req, ts) ==
    IF IsSome(createValidation(req))
    THEN Settle(Begin("create"), Rejected(CreateCatch(Get(createValidation(req)))))
    ELSE IF ~IsSome(req.key)
    THEN createPut(Begin("create"), req, ts)
    ELSE IF IsSome(findRecordValidation(req))
    THEN createUnchecked(Begin("create"), req, ts)
    ELSE findRecord(Begin("create"), req, "create.get")

Create(c) ==
    /\ calls[c].pc = "idle"
    /\ calls' = [calls EXCEPT ![c] = create(request, now)]
    /\ UNCHANGED <<request, now, result, log, store, bulk>>

\* the Get of the existence check is answered
CreateGetSettled(c) ==
    /\ calls[c].pc = "create.get"
    /\ \E ok \in BOOLEAN :
          /\ ok => Servable(Awaited(calls[c]))
          /\ calls' = [calls EXCEPT ![c] =
                IF ~ok THEN createUnchecked(Answered(@, FALSE), request, now)
                ELSE IF IsSome(GetItem(store, Awaited(@)))
                THEN Settle(Answered(@, TRUE), Rejected(CreateCatch(ItemExistsError)))
                ELSE createPut(Answered(@, TRUE), request, now)]
    /\ UNCHANGED <<request, now, result, log, store, bulk>>

\* the Put is answered: return options.params
CreatePutSettled(c) ==
    /\ calls[c].pc = "create.put"
    /\ \E ok \in BOOLEAN :
          /\ ok => Servable(Awaited(calls[c]))
          /\ calls' = [calls EXCEPT ![c] =
                IF ok THEN Settle(Answered(@, TRUE), Resolved(Get(@.local)))
                ELSE Settle(Answered(@, FALSE), Rejected(CreateCatch(ClientError)))]
          /\ store' = IF ok
                      THEN SetProp(store, Get(KeyValue(Awaited(calls[c]).input.Item)),
                                   Awaited(calls[c]).input.Item)
                      ELSE store
    /\ UNCHANGED <<request, now, result, log, bulk>>

(* delete *)

deleteValidation(req) ==
    FirstError(<<
        validation_validateTableName(req.tableName),
        IF IsSome(req.key) THEN validation_validateKey(req.key) ELSE None >>)

delete(req) ==
    IF IsSome(deleteValidation(req))
    THEN Settle(Begin("delete"), Rejected(DeleteCatch(Get(deleteValidation(req)))))
    ELSE Send(Begin("delete"), "delete.send",
              Command("DeleteCommand", buildDeleteInput(req).value), None)

Delete(c) ==
    /\ calls[c].pc = "idle"
    /\ calls' = [calls EXCEPT ![c] = delete(request)]
    /\ UNCHANGED <<request, now, result, log, store, bulk>>

\* { key: request.key?.id?.S || '', status: 'deleted' }
Deleted(req) ==
    [key |-> IF /\ IsSome(req.key)
                /\ hasOwnProperty(Get(req.key), n_id)
                /\ "S" \in DOMAIN Lookup(Get(req.key), n_id)
             THEN Lookup(Get(req.key), n_id).S
             ELSE <<>>,
     status |-> "deleted"]

DeleteSettled(c) ==
    /\ calls[c].pc = "delete.send"
    /\ \E ok \in BOOLEAN :
          /\ ok => Servable(Awaited(calls[c]))
          /\ calls' = [calls EXCEPT ![c] =
                IF ok THEN Settle(Answered(@, TRUE), Resolved(Deleted(request)))
                ELSE Settle(Answered(@, FALSE), Rejected(DeleteCatch(ClientError)))]
          /\ store' = IF ok
                      THEN RemoveProp(store, Get(KeyValue(Get(Awaited(calls[c]).input.Key))))
                      ELSE store
    /\ UNCHANGED <<request, now, result, log, bulk>>

(* update *)

update(req, ts) ==
    LET invalid == FirstError(<<validation_validateTableName(req.tableName),
                                validation_validateKey(req.key)>>)
        built == buildUpdateInput([tableName |-> req.tableName, key |-> req.key,
                                   params |-> req.params], ts)
    IN  IF IsSome(invalid)
        THEN Settle(Begin("update"), Rejected(UpdateCatch(Get(invalid))))
        ELSE IF ~IsSome(req.params)
        THEN Settle(Begin("update"),
                    Rejected(UpdateCatch(ErrorOf("UpdateError", "Update params are required"))))
        ELSE IF IsSome(validation_validateObject(req.params, "Params"))
        THEN Settle(Begin("update"),
                    Rejected(UpdateCatch(Get(validation_validateObject(req.params, "Params")))))
        ELSE IF built.threw
        THEN Settle(Begin("update"), Rejected(UpdateCatch(ErrorOf("Error", built.error))))
        ELSE Send(Begin("update"), "update.send", Command("UpdateCommand", built.value), None)

Update(c) ==
    /\ calls[c].pc = "idle"
    /\ calls' = [calls EXCEPT ![c] = update(request, now)]
    /\ UNCHANGED <<request, now, result, log, store, bulk>>

\* return result.Attributes
UpdateSettled(c) ==
    /\ calls[c].pc = "update.send"
    /\ \E ok \in BOOLEAN :
          /\ ok => Servable(Awaited(calls[c]))
          /\ calls' = [calls EXCEPT ![c] =
                IF ok THEN Settle(Answered(@, TRUE), Resolved(Some(Updated(store, Awaited(@).input))))
                ELSE Settle(Answered(@, FALSE), Rejected(UpdateCatch(ClientError)))]
          /\ store' = IF ok
                      THEN SetProp(store, Get(KeyValue(Get(Awaited(calls[c]).input.Key))),
                                   Updated(store, Awaited(calls[c]).input))
                      ELSE store
    /\ UNCHANGED <<request, now, result, log, bulk>>

(* The clients' requests and the runs of the facade *)

t_test == <<"t", "e", "s", "t">>
t_ab == <<"a", "b">>
t_bad == <<"t", "@", "b", "l">>

\* the filter expression 'a > :a'
f_a == <<"a", " ", ">", " ", ":", "a">>

OldItem == <<[k |-> n_id, v |-> [S |-> <<"x">>]], [k |-> n_a, v |-> [S |-> <<"y">>]]>>

FacadeBase ==
    [tableName |-> Some(t_test), indexName |-> None, key |-> Some(TaggedKey),
     params |-> Some(<<[k |-> n_a, v |-> v_x]>>), output |-> None, options |-> None,
     limit |-> None, startKey |-> None, nextToken |-> None, filters |-> None, query |-> None]

FacadeRequests ==
    {FacadeBase}
    \cup {[FacadeBase EXCEPT !.tableName = t] : t \in {None, Some(<<>>), Some(t_ab), Some(t_bad)}}
    \cup {[FacadeBase EXCEPT !.key = k] : k \in {None, Some(<<>>)}}
    \cup {[FacadeBase EXCEPT !.params = p] : p \in {None, Some(<<>>)}}
    \cup {[FacadeBase EXCEPT !.limit = l] : l \in {Some(0), Some(5), Some(1001), Some(0 - 1)}}
    \cup {[FacadeBase EXCEPT !.params = Some(<<[k |-> n_a, v |-> FunctionV]>>)]}
    \cup {[FacadeBase EXCEPT !.query = Some(q), !.params = p] :
                q \in {<<>>, <<[k |-> n_a, v |-> v_x]>>,
                       <<[k |-> n_a, v |-> v_x], [k |-> n_ab, v |-> v_25]>>},
                p \in {None, Some(<<[k |-> n_a, v |-> v_x]>>)}}
    \cup {[FacadeBase EXCEPT !.filters = Some(f), !.limit = l] :
                f \in {<<>>, <<f_a>>}, l \in {None, Some(5)}}
    \cup {[FacadeBase EXCEPT !.key = None, !.limit = Some(5)]}

InitFacade ==
    /\ request \in FacadeRequests
    /\ now = ClockStart
    /\ result = NoResult
    /\ log = <<>>
    /\ store \in {<<>>, <<[k |-> [S |-> <<"x">>], v |-> OldItem]>>}
    /\ calls = NoCalls
    /\ bulk = NoBulk

NextFacade ==
    \E c \in 1..MaxClients :
        \/ Query(c) \/ QuerySettled(c)
        \/ QueryWithPagination(c) \/ QueryWithPaginationSettled(c)
        \/ QueryRecord(c) \/ QueryRecordGetSettled(c) \/ QueryRecordQuerySettled(c)
        \/ FindRecord(c) \/ FindRecordSettled(c)
        \/ Create(c) \/ CreateGetSettled(c) \/ CreatePutSettled(c)
        \/ Delete(c) \/ DeleteSettled(c)
        \/ Update(c) \/ UpdateSettled(c)

SpecFacade == InitFacade /\ [][NextFacade]_vars

----------------------------------------------------------------------------
(* Bulkify.ts *)

\* constructor(size = 25)
Bulkify(size) == [records |-> <<>>, size |-> IF IsSome(size) THEN Get(size) ELSE 25]

\* bulkWrapItem(Item)
bulkWrapItem(Item) == [PutRequest |-> [Item |-> Item]]

\* variant: an array replaces the records added before
Bulkify_add_Replace(b, index, data) ==
    IF data.type = "array"
    THEN [b EXCEPT !.records =
            [i \in 1..Len(data.items) |-> [index |-> index, record |-> bulkWrapItem(data.items[i])]]]
    ELSE [b EXCEPT !.records = Append(@, [index |-> index, record |-> bulkWrapItem(data)])]

\* add(index, data)
Bulkify_add(b, index, data) ==
    IF data.type = "array"
    THEN [b EXCEPT !.records = @ \o
            [i \in 1..Len(data.items) |-> [index |-> index, record |-> bulkWrapItem(data.items[i])]]]
    ELSE [b EXCEPT !.records = Append(@, [index |-> index, record |-> bulkWrapItem(data)])]

\* lodash chunk(array, size): no chunk at all for a size below 1
RECURSIVE chunker(_, _)
chunker(array, size) ==
    IF Len(array) = 0 \/ size < 1 THEN <<>>
    ELSE IF Len(array) <= size THEN <<array>>
    ELSE <<SubSeq(array, 1, size)>> \o chunker(SubSeq(array, size + 1, Len(array)), size)

\* records.reduce(...): the records of a chunk collected under their index
RECURSIVE Collect(_, _, _)
Collect(records, i, collection) ==
    IF i > Len(records) THEN collection
    ELSE Collect(records, i + 1,
                 SetProp(collection, records[i].index,
                         Append(IF hasOwnProperty(collection, records[i].index)
                                THEN Lookup(collection, records[i].index) ELSE <<>>,
                                records[i].record)))

buildRequest(records) == [RequestItems |-> Collect(records, 1, <<>>)]

\* get query()
Bulkify_query(b) ==
    IF Len(b.records) > 0
    THEN [i \in 1..Len(chunker(b.records, b.size)) |-> buildRequest(chunker(b.records, b.size)[i])]
    ELSE <<>>

(* The runs of a Bulkify object *)

item_x == <<[k |-> n_id, v |-> v_x]>>
item_y == <<[k |-> n_id, v |-> v_y]>>

Single(item) == [type |-> "object", item |-> item]
Array(items) == [type |-> "array", items |-> items]

BulkSizes == {None, Some(0), Some(1), Some(2), Some(3)}
BulkIndexes == {"Users", "Orders"}
BulkData ==
    {Single(item_x), Single(item_y), Array(<<>>),
     Array(<<Single(item_x), Single(item_y)>>),
     Array(<<Single(item_y), Single(item_x), Single(item_x)>>)}

InitBulk ==
    /\ request = BaseRequest
    /\ now = ClockStart
    /\ result = NoResult
    /\ log = <<>>
    /\ store = <<>>
    /\ calls = NoCalls
    /\ \E size \in BulkSizes : bulk = Bulkify(size)

BulkAdd ==
    /\ Len(log) < MaxAdds
    /\ \E index \in BulkIndexes, data \in BulkData :
          /\ bulk' = Bulkify_add(bulk, index, data)
          /\ log' = Append(log, [op |-> "add", index |-> index, data |-> data])
    /\ UNCHANGED <<request, now, result, store, calls>>

BulkQuery ==
    /\ result' = [op |-> "Bulkify.query", out |-> Returned(Bulkify_query(bulk)), ts |-> 0]
    /\ UNCHANGED <<request, now, log, store, calls, bulk>>

NextBulk == BulkAdd \/ BulkQuery

SpecBulk == InitBulk /\ [][NextBulk]_vars

----------------------------------------------------------------------------
(* Reading a compiled expression back *)

\* the first position at which sep occurs in s, 0 when it does not occur
IndexOf(s, sep) ==
    LET hits == {i \in 1..(Len(s) - Len(sep) + 1) : SubSeq(s, i, i + Len(sep) - 1) = sep}
    IN  IF hits = {} THEN 0 ELSE CHOOSE i \in hits : \A j \in hits : i <= j

RECURSIVE Split(_, _)
Split(s, sep) ==
    LET i == IndexOf(s, sep)
    IN  IF i = 0 THEN <<s>>
        ELSE <<SubSeq(s, 1, i - 1)>> \o Split(SubSeq(s, i + Len(sep), Len(s)), sep)

\* the clauses of an expression; the empty expression has none
Clauses(expr, sep) == IF Len(expr) = 0 THEN <<>> ELSE Split(expr, sep)

\* the two sides of a clause 'left = right'
Left(clause) == Split(clause, Eq)[1]
Right(clause) == Split(clause, Eq)[Len(Split(clause, Eq))]

Indices(seq) == [i \in 1..Len(seq) |-> i]

QueryReturned == result.op = "buildQueryInput" /\ ~result.out.threw
UpdateReturned == result.op = "buildUpdateInput" /\ ~result.out.threw
ScanReturned == result.op = "buildScanInput" /\ ~result.out.threw

Params == Get(request.params)
Out == result.out.value

FirstCharsDistinct(p) ==
    \A i, j \in 1..Len(p) : i < j => charAt(p[i].k, 0) # charAt(p[j].k, 0)

----------------------------------------------------------------------------
(* C1..C3: buildQueryInput *)

\* C1: for every params map given to buildQueryInput, also when several
\* names share a first letter, their first two letters, or a colliding name
\* is one character long, the value placeholders of distinct attributes are
\* pairwise distinct: ExpressionAttributeValues has one entry per attribute
\* and every clause of KeyConditionExpression refers to the placeholder bound
\* to its own attribute's encoded value.
C1_PlaceholdersDistinct ==
    QueryReturned =>
        LET clauses == Clauses(Out.KeyConditionExpression, AndLower)
            values == Get(Out.ExpressionAttributeValues)
        IN  /\ Len(clauses) = Len(Params)
            /\ Len(values) = Len(Params)
            /\ \A i, j \in 1..Len(Params) :
                  i < j => Right(clauses[i]) # Right(clauses[j])
            /\ \A i \in 1..Len(Params) :
                  /\ hasOwnProperty(values, Right(clauses[i]))
                  /\ Lookup(values, Right(clauses[i])) = toAttributeValue(Params[i].v)

\* C2 as stated: when no two names share a first character, the key
\* condition is the N clauses '<name> = :<first letter>' in insertion order
\* joined by ' and ', and ExpressionAttributeValues has the N entries
\* ':' + first letter, each holding the encoded value of its attribute.
C2_BareNameClauses ==
    (QueryReturned /\ FirstCharsDistinct(Params)) =>
        /\ Out.KeyConditionExpression =
              join([i \in 1..Len(Params) |->
                      Params[i].k \o Eq \o Colon \o charAt(Params[i].k, 0)], AndLower)
        /\ Get(Out.ExpressionAttributeValues) =
              [i \in 1..Len(Params) |->
                  [k |-> Colon \o charAt(Params[i].k, 0),
                   v |-> toAttributeValue(Params[i].v)]]

\* C2 amended: when no two names share a first character, the key condition
\* is the N clauses '<token> = :<first letter of name>' in insertion order
\* joined by ' and ', the token being '#<name>' for a reserved name and the
\* bare name otherwise, and ExpressionAttributeValues has the N entries
\* ':' + first letter, each holding the encoded value of its attribute.
C2_FirstLetterClauses ==
    (QueryReturned /\ FirstCharsDistinct(Params)) =>
        /\ Out.KeyConditionExpression =
              join([i \in 1..Len(Params) |->
                      (IF Params[i].k \in allReservedWords THEN Hash ELSE <<>>)
                         \o Params[i].k \o Eq \o Colon \o charAt(Params[i].k, 0)],
                   AndLower)
        /\ Get(Out.ExpressionAttributeValues) =
              [i \in 1..Len(Params) |->
                  [k |-> Colon \o charAt(Params[i].k, 0),
                   v |-> toAttributeValue(Params[i].v)]]

\* a query over two names with distinct first letters, one of them reserved
C2_Witness ==
    /\ QueryReturned
    /\ Len(Params) = 2
    /\ FirstCharsDistinct(Params)
    /\ Params[1].k = n_key
    /\ Params[2].k = n_ab
    /\ Len(Get(Out.ExpressionAttributeValues)) = 2

\* C3: in the key condition a name appears as '#name', with the alias
\* '#name' -> name in ExpressionAttributeNames, if and only if it is a
\* case-sensitive member of the reserved words; every other name appears
\* bare without an alias, and ExpressionAttributeNames is absent when no
\* attribute is reserved.
C3_AliasIffReserved ==
    QueryReturned =>
        LET clauses == Clauses(Out.KeyConditionExpression, AndLower)
            names == Out.ExpressionAttributeNames
        IN  /\ Len(clauses) = Len(Params)
            /\ \A i \in 1..Len(Params) :
                  LET attr == Params[i].k
                  IN  IF attr \in allReservedWords
                      THEN /\ Left(clauses[i]) = Hash \o attr
                           /\ IsSome(names)
                           /\ hasOwnProperty(Get(names), Hash \o attr)
                           /\ Lookup(Get(names), Hash \o attr) = attr
                      ELSE /\ Left(clauses[i]) = attr
                           /\ ~(IsSome(names) /\ hasOwnProperty(Get(names), Hash \o attr))
            /\ (\A i \in 1..Len(Params) : Params[i].k \notin allReservedWords)
                  => ~IsSome(names)
            /\ IsSome(names) => Len(Get(names)) =
                  Cardinality({i \in 1..Len(Params) : Params[i].k \in allReservedWords})

\* a query over 'key' (reserved) and 'Key' (not reserved: the test is
\* case-sensitive)
C3_Witness ==
    /\ QueryReturned
    /\ Len(Params) = 2
    /\ Params[1].k = n_Key
    /\ Params[2].k = n_key
    /\ IsSome(Out.ExpressionAttributeNames)
    /\ Len(Get(Out.ExpressionAttributeNames)) = 1

----------------------------------------------------------------------------
(* C4, C5: buildUpdateInput *)

\* the params the update is compiled from: { ...request.params, updatedAt }
\* as the claims describe it: the keys of P in order, updatedAt once, at its
\* place in P when P names it and last otherwise
UpdatedKeys ==
    LET P == IF IsSome(request.params) THEN Keys(Get(request.params)) ELSE <<>>
    IN  IF \E i \in 1..Len(P) : P[i] = updatedAt THEN P ELSE Append(P, updatedAt)

UpdateClauses ==
    Clauses(SubSeq(Out.UpdateExpression, Len(SetSp) + 1, Len(Out.UpdateExpression)), CommaSp)

C5_UpdateClauses ==
    (UpdateReturned /\ IsSome(request.params) /\ Len(Params) > 0) =>
        LET values == Get(Out.ExpressionAttributeValues)
            placeholder(i) == Colon \o charAt(UpdatedKeys[i], 0) \o NumberToString(i - 1)
        IN  /\ SubSeq(Out.UpdateExpression, 1, Len(SetSp)) = SetSp
            /\ Len(UpdateClauses) = Len(UpdatedKeys)
            /\ Len(values) = Len(UpdatedKeys)
            /\ Cardinality({i \in 1..Len(UpdatedKeys) : UpdatedKeys[i] = updatedAt}) = 1
            /\ \A i \in 1..Len(UpdatedKeys) :
                  /\ Right(UpdateClauses[i]) = placeholder(i)
                  /\ Left(UpdateClauses[i]) \in {UpdatedKeys[i], Hash \o UpdatedKeys[i]}
                  /\ hasOwnProperty(values, placeholder(i))
                  /\ Lookup(values, placeholder(i)) =
                        IF UpdatedKeys[i] = updatedAt
                        THEN [N |-> NumberToString(result.ts)]
                        ELSE toAttributeValue(Params[i].v)
            /\ \A i, j \in 1..Len(UpdatedKeys) :
                  i < j => Right(UpdateClauses[i]) # Right(UpdateClauses[j])

\* an update whose params already name updatedAt, compiled at the two-digit
\* clock reading
C5_Witness ==
    /\ UpdateReturned
    /\ IsSome(request.params)
    /\ Keys(Params) = <<updatedAt, n_a>>
    /\ result.ts = ClockStart + 1
    /\ Len(UpdateClauses) = 2
    /\ Lookup(Get(Out.ExpressionAttributeValues), <<":", "u", "0">>)
          = [N |-> NumberToString(ClockStart + 1)]

----------------------------------------------------------------------------
(* C6..C10: buildScanInput *)

\* the word that joins the filter clauses: the configured one, else 'And'
Joiner ==
    IF IsSome(request.options) /\ IsSome(Get(request.options).filterExpressionContext)
    THEN Get(Get(request.options).filterExpressionContext)
    ELSE And

FilterClauses ==
    IF IsSome(Out.FilterExpression)
    THEN Clauses(Get(Out.FilterExpression), Space \o Joiner \o Space)
    ELSE <<>>

\* the positions of params whose value produces a filter clause
Compared == SelectSeq(Indices(Params), LAMBDA i : Params[i].v.type \in {"string", "number"})
Filtered ==
    SelectSeq(Indices(Params), LAMBDA i : Params[i].v.type \in {"string", "number", "array"})

\* the position among the clauses of the clause of params entry i
ClauseOf(i) == CHOOSE c \in 1..Len(Filtered) : Filtered[c] = i

ScanPlaceholder(i) == Colon \o charAt(Params[i].k, 0) \o NumberToString(i - 1)

\* C6: for every params entry at position i whose value is a string or a
\* number the filter has the clause '#<name> = :<first letter><i>' with the
\* placeholder bound to the encoded value; the clauses are in insertion
\* order, joined by ' And ' when no joiner is configured and by the
\* configured word otherwise.
C6_ScanEqualityClauses ==
    (ScanReturned /\ IsSome(request.params)) =>
        /\ Len(FilterClauses) = Len(Filtered)
        /\ \A c \in 1..Len(Compared) :
              LET i == Compared[c]
              IN  /\ FilterClauses[ClauseOf(i)] =
                        Hash \o Params[i].k \o Eq \o ScanPlaceholder(i)
                  /\ hasOwnProperty(Get(Out.ExpressionAttributeValues), ScanPlaceholder(i))
                  /\ Lookup(Get(Out.ExpressionAttributeValues), ScanPlaceholder(i))
                        = toAttributeValue(Params[i].v)

\* a scan joined by 'Or' over a string and a number
C6_Witness ==
    /\ ScanReturned
    /\ IsSome(request.params)
    /\ Joiner = Or
    /\ Len(Compared) = 2
    /\ Params[1].v.type = "string"
    /\ Params[2].v.type = "number"
    /\ Len(FilterClauses) = 2

\* C7: for a list-valued params entry the filter has the clause
\* 'contains(#<name>, <placeholder>)' and the placeholder is bound to the
\* encoded first element of the list only: the values table holds one value
\* per clause and no other element of the list.
C7_ScanContainsFirst ==
    (ScanReturned /\ IsSome(request.params)) =>
        /\ Len(FilterClauses) = Len(Filtered)
        /\ Len(Get(Out.ExpressionAttributeValues)) = Len(Filtered)
        /\ \A i \in 1..Len(Params) :
              (Params[i].v.type = "array" /\ Len(Params[i].v.items) > 0) =>
                  /\ FilterClauses[ClauseOf(i)] =
                        ContainsOpen \o Hash \o Params[i].k \o CommaSp
                           \o ScanPlaceholder(i) \o CloseParen
                  /\ hasOwnProperty(Get(Out.ExpressionAttributeValues), ScanPlaceholder(i))
                  /\ Lookup(Get(Out.ExpressionAttributeValues), ScanPlaceholder(i))
                        = toAttributeValue(Params[i].v.items[1])

\* a scan over a two-element list
C7_Witness ==
    /\ ScanReturned
    /\ IsSome(request.params)
    /\ Len(Params) = 2
    /\ Params[2].v = v_list
    /\ Lookup(Get(Out.ExpressionAttributeValues), ScanPlaceholder(2)) = [S |-> <<"x">>]

ProjectionTokens == Clauses(Get(Out.ProjectionExpression), CommaSp)

\* C8 as stated: the projection has a '#name' token for exactly the names of
\* request.output that are not keys of request.params, joined by ', ' in
\* output order.
C8_ProjectionWithoutParams ==
    (ScanReturned /\ IsSome(request.output)) =>
        LET keys == IF IsSome(request.params) THEN KeySet(Params) ELSE {}
            kept == SelectSeq(Get(request.output), LAMBDA attr : attr \notin keys)
        IN  /\ IsSome(Out.ProjectionExpression)
            /\ ProjectionTokens = [i \in 1..Len(kept) |-> Hash \o kept[i]]

\* C8 amended: the projection has a '#name' token for every name of
\* request.output, whether or not the name is also a key of request.params,
\* joined by ', ' in output order.
C8_ProjectionAllOutput ==
    (ScanReturned /\ IsSome(request.output)) =>
        /\ IsSome(Out.ProjectionExpression)
        /\ ProjectionTokens =
              [i \in 1..Len(Get(request.output)) |-> Hash \o Get(request.output)[i]]

\* a scan whose output names a filter parameter and another attribute
C8_Witness ==
    /\ ScanReturned
    /\ IsSome(request.output)
    /\ IsSome(request.params)
    /\ Get(request.output) = <<n_ab, n_a>>
    /\ n_a \in KeySet(Params)
    /\ ProjectionTokens = <<Hash \o n_ab, Hash \o n_a>>

\* C9: a scan request that carries a ProjectionExpression does not carry
\* Select = 'ALL_ATTRIBUTES'.
C9_SelectAllOnlyWithoutProjection ==
    ScanReturned =>
        (Out.Select = "ALL_ATTRIBUTES" => ~IsSome(Out.ProjectionExpression))

\* C10: in every request returned by buildScanInput, buildQueryInput and
\* buildUpdateInput, ExpressionAttributeNames is present only with at least
\* one entry and ExpressionAttributeValues is present only with at least one
\* entry.
C10_NoEmptyAliasTable ==
    (result.op \in {"buildScanInput", "buildQueryInput", "buildUpdateInput"}
        /\ ~result.out.threw) =>
        /\ IsSome(Out.ExpressionAttributeNames) => Len(Get(Out.ExpressionAttributeNames)) > 0
        /\ IsSome(Out.ExpressionAttributeValues) => Len(Get(Out.ExpressionAttributeValues)) > 0

----------------------------------------------------------------------------
(* C11: empty params *)

EmptyParams == IsSome(request.params) /\ Len(Params) = 0

\* C11 as stated: given an empty params map, each of buildScanInput,
\* buildQueryInput and buildUpdateInput returns a request without throwing,
\* and the filter, key-condition or update expression is the empty string
\* or omitted.
C11_EmptyParamsNeverThrow ==
    (EmptyParams /\ result.op \in {"buildScanInput", "buildQueryInput", "buildUpdateInput"}) =>
        /\ ~result.out.threw
        /\ result.op = "buildScanInput" => ~IsSome(Out.FilterExpression)
        /\ result.op = "buildQueryInput" => Out.KeyConditionExpression = <<>>
        /\ result.op = "buildUpdateInput" => Out.UpdateExpression = <<>>

\* C11 amended: given an empty params map, buildScanInput and
\* buildQueryInput return a request without throwing, the filter expression
\* omitted and the key-condition expression the empty string;
\* buildUpdateInput throws (an empty params map is rejected with 'Params is
\* required and must not be empty' once the table name and key are accepted)
\* and returns no request.
C11_EmptyParamsScanQueryReturn ==
    EmptyParams =>
        /\ result.op = "buildScanInput" =>
              ~result.out.threw /\ ~IsSome(Out.FilterExpression)
        /\ result.op = "buildQueryInput" =>
              ~result.out.threw /\ Out.KeyConditionExpression = <<>>
        /\ result.op = "buildUpdateInput" =>
              /\ result.out.threw
              /\ (~validateTableNameThrows(request.tableName)
                    /\ (IsSome(request.key) => Len(Get(request.key)) > 0))
                  => result.out.error = "Params is required and must not be empty"

\* an update over an empty params map, rejected for its params
C11_Witness ==
    /\ EmptyParams
    /\ result.op = "buildUpdateInput"
    /\ result.out.threw
    /\ result.out.error = "Params is required and must not be empty"

----------------------------------------------------------------------------
(* C16..C18: the request fields *)

TableNameMissing == ~IsSome(request.tableName)
KeyMissing == ~IsSome(request.key)

\* C16: every assembler throws when the table name is missing, and
\* buildGetInput, buildDeleteInput and buildUpdateInput throw when the key
\* is missing; none returns a request with an absent TableName or an absent
\* required Key.
C16_InvalidInputThrows ==
    /\ (result.op \in Builders /\ TableNameMissing) => result.out.threw
    /\ (result.op \in {"buildGetInput", "buildDeleteInput", "buildUpdateInput"} /\ KeyMissing)
          => result.out.threw

\* C17: buildGetInput and buildDeleteInput return exactly { TableName, Key }
\* with Key the request's key unchanged, for single and composite keys, and
\* add no expression or alias table.
C17_GetDeleteKeyUnchanged ==
    result.op \in {"buildGetInput", "buildDeleteInput"} =>
        /\ ~result.out.threw
        /\ DOMAIN Out = {"TableName", "Key"}
        /\ Out.TableName = request.tableName
        /\ Out.Key = request.key

\* a get for a composite key
C17_Witness ==
    /\ result.op = "buildGetInput"
    /\ request.key = Some(CompositeKey)
    /\ Out.Key = Some(CompositeKey)

\* C18 as stated: every query request has ConsistentRead = true, carries
\* Limit = request.limit exactly when a limit was supplied, ExclusiveStartKey
\* = request.nextToken exactly when a token was supplied, and IndexName =
\* request.indexName when an index was named.
C18_QueryFieldsWhenSupplied ==
    QueryReturned =>
        /\ Out.ConsistentRead = TRUE
        /\ Out.Limit = request.limit
        /\ Out.ExclusiveStartKey = request.nextToken
        /\ IsSome(request.indexName) => Out.IndexName = request.indexName

\* C18 amended: every query request has ConsistentRead = true, carries
\* Limit = request.limit exactly when a limit other than 0 was supplied (a
\* limit of 0 is dropped), ExclusiveStartKey = request.nextToken exactly when
\* a token was supplied, and IndexName = request.indexName when an index was
\* named.
C18_QueryFieldsWhenTruthy ==
    QueryReturned =>
        /\ Out.ConsistentRead = TRUE
        /\ Out.Limit = IF request.limit = Some(0) THEN None ELSE request.limit
        /\ Out.ExclusiveStartKey = request.nextToken
        /\ IsSome(request.indexName) => Out.IndexName = request.indexName

\* a query with a limit, a pagination token and an index
C18_Witness ==
    /\ QueryReturned
    /\ request.limit = Some(10)
    /\ Out.Limit = Some(10)
    /\ IsSome(request.nextToken)
    /\ Out.ExclusiveStartKey = request.nextToken
    /\ Out.IndexName = Some("index")

----------------------------------------------------------------------------
(* C12, C13: the Value Encoder *)

\* the values the encoder is specified for: string, number, boolean, null,
\* and lists and maps of such values
RECURSIVE Supported(_)
Supported(value) ==
    CASE value.type = "array" -> \A i \in 1..Len(value.items) : Supported(value.items[i])
      [] value.type = "object" -> \A i \in 1..Len(value.entries) : Supported(value.entries[i].v)
      [] OTHER -> value.type \in {"string", "number", "boolean", "null"}

DigitValue(c) == CHOOSE d \in 0..9 : Digits[d + 1] = c

\* the number a decimal text denotes
RECURSIVE ParseNat(_)
ParseNat(text) ==
    IF Len(text) = 0 THEN 0
    ELSE 10 * ParseNat(SubSeq(text, 1, Len(text) - 1)) + DigitValue(text[Len(text)])

ParseNumber(text) ==
    IF Len(text) > 0 /\ text[1] = "-" THEN 0 - ParseNat(Tail(text)) ELSE ParseNat(text)

IsDecimalText(text) ==
    LET digits == IF Len(text) > 0 /\ text[1] = "-" THEN Tail(text) ELSE text
    IN  /\ Len(digits) > 0
        /\ \A i \in 1..Len(digits) : \E d \in 0..9 : Digits[d + 1] = digits[i]

EncoderCalls == {i \in 1..Len(log) : log[i].op = "toAttributeValue"}

C13_UndefinedFails ==
    \A c \in EncoderCalls :
        /\ log[c].arg = Undefined => log[c].out.threw
        /\ log[c].out = Returned([NULL |-> TRUE]) => log[c].arg = Null

\* C13 amended: toAttributeValue(undefined) does not fail: it returns the
\* Null variant, and the Null variant is the encoding of null and of
\* undefined and of no other value.
C13_UndefinedIsNull ==
    \A c \in EncoderCalls :
        /\ log[c].arg = Undefined => log[c].out = Returned([NULL |-> TRUE])
        /\ log[c].out = Returned([NULL |-> TRUE]) <=> log[c].arg \in {Null, Undefined}

\* undefined and null have been encoded, both to the Null variant
C13_Witness ==
    /\ Len(log) = 2
    /\ log[1].op = "toAttributeValue"
    /\ log[1].arg = Undefined
    /\ log[2].arg = Null
    /\ log[1].out = log[2].out

----------------------------------------------------------------------------
(* C14, C15: calls compared *)

\* C14: compiling the same request twice with buildScanInput,
\* buildQueryInput or buildUpdateInput yields equal expressions and equal
\* alias tables, whatever happens between the two calls, the clock advancing
\* included.
C14_SameRequestSameResult ==
    \A c, d \in 1..Len(log) :
        (/\ c < d
         /\ log[c].op \in {"buildScanInput", "buildQueryInput", "buildUpdateInput"}
         /\ log[c].op = log[d].op
         /\ log[c].arg = log[d].arg
         /\ ~log[c].out.threw /\ ~log[d].out.threw)
        => LET first == log[c].out.value
               second == log[d].out.value
           IN  /\ first.ExpressionAttributeNames = second.ExpressionAttributeNames
               /\ first.ExpressionAttributeValues = second.ExpressionAttributeValues
               /\ log[c].op = "buildScanInput" =>
                     /\ first.FilterExpression = second.FilterExpression
                     /\ first.ProjectionExpression = second.ProjectionExpression
               /\ log[c].op = "buildQueryInput" =>
                     first.KeyConditionExpression = second.KeyConditionExpression
               /\ log[c].op = "buildUpdateInput" =>
                     first.UpdateExpression = second.UpdateExpression

\* C15: under any interleaving of builder calls (scan, query, update, put,
\* get, delete) each call's result is the one the same builder produces on
\* the same request in any other call, alone or not: it depends on the
\* request and on nothing another call or the environment wrote; and no call
\* modifies the request it was given.
C15_CallsShareNoState ==
    /\ \A c \in 1..Len(log) : log[c].op \in Builders => log[c].after = log[c].arg
    /\ \A c, d \in 1..Len(log) :
          (log[c].op \in Builders /\ log[c].op = log[d].op /\ log[c].arg = log[d].arg)
              => log[c].out = log[d].out

----------------------------------------------------------------------------
(* C19, C20: the facade's rejections *)

FacadeOutcome(c) == Get(calls[c].outcome)

Dispatched(call, cmd) == \E i \in 1..Len(call.sent) : call.sent[i].cmd = cmd

\* the request is valid and the table holds an item under the request's key
HeldUnderKey ==
    /\ ~IsSome(createValidation(request))
    /\ IsSome(request.key)
    /\ IsSome(KeyValue(Get(request.key)))
    /\ IsSome(StoredItem(store, Get(KeyValue(Get(request.key)))))

\* C19: while the table holds an item under the key of a (valid) create
\* request, no step of a create call dispatches a Put or changes the stored
\* item, and a create call that ends, ends rejected with ItemExistsError.
C19_CreateExistingRejects ==
    [][\A c \in 1..MaxClients :
          (HeldUnderKey /\ calls'[c] # calls[c] /\ calls'[c].op = "create")
              => /\ ~Dispatched(calls'[c], "PutCommand")
                 /\ calls'[c].pc = "done" =>
                       /\ Get(calls'[c].outcome).rejected
                       /\ InstanceOf(Get(calls'[c].outcome).error, "ItemExistsError")
                 /\ store' = store]_vars

\* the request is invalid in one of the ways the claim names
ShortTableName(req) == IsSome(req.tableName) /\ Len(Get(req.tableName)) < 3
EmptyKey(req) == IsSome(req.key) /\ Len(Get(req.key)) = 0
LimitOutOfRange(req) == IsSome(req.limit) /\ (Get(req.limit) < 1 \/ Get(req.limit) > 1000)

InvalidFor(op, req) ==
    \/ ShortTableName(req)
    \/ EmptyKey(req)
    \/ op = "query" /\ LimitOutOfRange(req)

\* C20: a query, create, update or delete call on an invalid request (table
\* name shorter than 3 characters, empty key object, limit outside 1..1000
\* for query) ends rejected with an error that is an instance of
\* ValidationError.
C20_InvalidRejectsWithValidationError ==
    \A c \in 1..MaxClients :
        (/\ calls[c].op \in {"query", "create", "update", "delete"}
         /\ calls[c].pc = "done"
         /\ InvalidFor(calls[c].op, request))
        => /\ FacadeOutcome(c).rejected
           /\ InstanceOf(FacadeOutcome(c).error, "ValidationError")

----------------------------------------------------------------------------
(* C21, C22: update and findRecord on a key without an item *)

RequestKeyValue == Get(KeyValue(Get(request.key)))

\* the request names the hash key
HasHashKey == IsSome(request.key) /\ IsSome(KeyValue(Get(request.key)))

\* the request is a valid update request and the table holds no item under
\* its key
NoItemUnderKey ==
    /\ ~IsSome(validation_validateTableName(request.tableName))
    /\ HasHashKey
    /\ IsSome(request.params) /\ Len(Get(request.params)) > 0
    /\ ~AnyUnsupported(Get(request.params))
    /\ ~IsSome(StoredItem(store, RequestKeyValue))

\* C21: while the table holds no item under the key of a (valid) update
\* request, no step of an update call dispatches an Update command or adds
\* an item to the table, and an update call that ends, ends rejected with
\* ItemNotFoundError.
C21_UpdateMissingRejects ==
    [][\A c \in 1..MaxClients :
          (NoItemUnderKey /\ calls'[c] # calls[c] /\ calls'[c].op = "update")
              => /\ ~Dispatched(calls'[c], "UpdateCommand")
                 /\ calls'[c].pc = "done" =>
                       /\ Get(calls'[c].outcome).rejected
                       /\ InstanceOf(Get(calls'[c].outcome).error, "ItemNotFoundError")
                 /\ store' = store]_vars

\* the table name is one validateTableName refuses
TableNameRefused(req) ==
    \/ ~IsSome(req.tableName)
    \/ Len(Get(req.tableName)) < 3
    \/ \E i \in 1..Len(Get(req.tableName)) : Get(req.tableName)[i] \notin AllowedTableNameChars

----------------------------------------------------------------------------
(* C28: every alias and every placeholder of a scan is used *)

IsContains(clause) ==
    Len(clause) >= Len(ContainsOpen) /\ SubSeq(clause, 1, Len(ContainsOpen)) = ContainsOpen

\* the arguments of 'contains(<alias>, <placeholder>)'
ContainsArgs(clause) ==
    Split(SubSeq(clause, Len(ContainsOpen) + 1, Len(clause) - Len(CloseParen)), CommaSp)

AliasIn(clause) == IF IsContains(clause) THEN ContainsArgs(clause)[1] ELSE Left(clause)
PlaceholderIn(clause) == IF IsContains(clause) THEN ContainsArgs(clause)[2] ELSE Right(clause)

ScanAliasesUsed ==
    {AliasIn(FilterClauses[i]) : i \in 1..Len(FilterClauses)}
    \cup (IF IsSome(Out.ProjectionExpression)
          THEN {ProjectionTokens[i] : i \in 1..Len(ProjectionTokens)} ELSE {})

ScanPlaceholdersUsed == {PlaceholderIn(FilterClauses[i]) : i \in 1..Len(FilterClauses)}

\* C28: in every request returned by buildScanInput each alias of
\* ExpressionAttributeNames occurs in the FilterExpression or in the
\* ProjectionExpression, and each placeholder of ExpressionAttributeValues
\* occurs in the FilterExpression.
C28_ScanTablesUsed ==
    ScanReturned =>
        /\ IsSome(Out.ExpressionAttributeNames) =>
              KeySet(Get(Out.ExpressionAttributeNames)) \subseteq ScanAliasesUsed
        /\ IsSome(Out.ExpressionAttributeValues) =>
              KeySet(Get(Out.ExpressionAttributeValues)) \subseteq ScanPlaceholdersUsed

----------------------------------------------------------------------------
(* C23: query by a conditions map *)

LimitAccepted(req) == ~IsSome(req.limit) \/ (Get(req.limit) >= 1 /\ Get(req.limit) <= 1000)

\* a valid request with a 'query' conditions map and no 'params'
QueryByConditions ==
    /\ IsSome(request.query)
    /\ ~IsSome(request.params)
    /\ ~TableNameRefused(request)
    /\ ~EmptyKey(request)
    /\ LimitAccepted(request)

\* C23: a query call on a request with a 'query' map and no 'params'
\* dispatches one Query command whose KeyConditionExpression has one
\* equality clause per entry of 'query', in order, on the entry's name, and
\* once the store has answered it resolves with the list of items returned
\* (the empty list if none).
C23_QueryConditionsCompiled ==
    \A c \in 1..MaxClients :
        (calls[c].op = "query" /\ QueryByConditions)
        => /\ Len(calls[c].sent) = 1
           /\ calls[c].sent[1].cmd = "QueryCommand"
           /\ LET conditions == Get(request.query)
                  clauses == Clauses(calls[c].sent[1].input.KeyConditionExpression, AndLower)
              IN  /\ Len(clauses) = Len(conditions)
                  /\ \A i \in 1..Len(conditions) :
                        Left(clauses[i]) \in {conditions[i].k, Hash \o conditions[i].k}
           /\ (calls[c].pc = "done" /\ calls[c].answers = <<"ok">>)
                 => /\ ~FacadeOutcome(c).rejected
                    /\ FacadeOutcome(c).value \in {<<>>, Items(store)}

----------------------------------------------------------------------------
(* C24: two creates with the same key at the same time *)

Finished(c, op) == calls[c].op = op /\ calls[c].pc = "done"
ResolvedCall(c) == calls[c].pc = "done" /\ ~FacadeOutcome(c).rejected

AllAnswered(c) == \A i \in 1..Len(calls[c].answers) : calls[c].answers[i] = "ok"

\* C24: of two create calls with the same (valid) key on a table that holds
\* no item under that key, with every command answered by the client,
\* whatever the order of their existence checks and Puts, at most one
\* resolves and the other ends rejected with ItemExistsError.
C24_OneCreateWins ==
    \A c, d \in 1..MaxClients :
        (/\ c # d
         /\ Finished(c, "create") /\ Finished(d, "create")
         /\ HasHashKey
         /\ AllAnswered(c) /\ AllAnswered(d)
         /\ ~IsSome(StoredItem(store, RequestKeyValue)))
        => /\ ~(ResolvedCall(c) /\ ResolvedCall(d))
           /\ ResolvedCall(c)
                 => /\ FacadeOutcome(d).rejected
                    /\ InstanceOf(FacadeOutcome(d).error, "ItemExistsError")

----------------------------------------------------------------------------
(* C25: create after a failed existence check *)

Compilable(req) == ~IsSome(req.params) \/ ~AnyUnsupported(Get(req.params))

----------------------------------------------------------------------------
(* C26: validation and compilation come before dispatch *)

ErrorClassOf(op) ==
    CASE op \in {"query", "queryRecord", "queryWithPagination"} -> "QueryError"
      [] op = "create" -> "CreateError"
      [] op = "findRecord" -> "ItemNotFoundError"
      [] op = "update" -> "UpdateError"
      [] op = "delete" -> "DeleteError"

\* the call has ended because a validator or a builder threw, not because
\* the client rejected a command or the item exists
ThrewInCompile(c) ==
    /\ calls[c].pc = "done"
    /\ FacadeOutcome(c).rejected
    /\ FacadeOutcome(c).error.class # "ItemExistsError"
    /\ IF calls[c].op = "findRecord" THEN calls[c].answers = <<>>
       ELSE FacadeOutcome(c).error.message # ClientError.message

----------------------------------------------------------------------------
(* C27: the key in the item of a create *)

PutOf(c) == calls[c].sent[CHOOSE i \in 1..Len(calls[c].sent) : calls[c].sent[i].cmd = "PutCommand"]

\* C27: for a create call that resolved on a request with a tagged key, the
\* Item of its Put holds, under every key attribute, the attribute value
\* that buildGetInput sends as Key for the same request.
C27_KeyRoundTrip ==
    \A c \in 1..MaxClients :
        (Finished(c, "create") /\ ResolvedCall(c) /\ IsSome(request.key))
        => LET Key == Get(buildGetInput(request).value.Key)
               Item == PutOf(c).input.Item
           IN  \A i \in 1..Len(Key) :
                  /\ hasOwnProperty(Item, Key[i].k)
                  /\ Lookup(Item, Key[i].k) = Key[i].v

----------------------------------------------------------------------------
(* C29: queryRecord *)

\* C29: a queryRecord call on a valid request sends exactly one command: a
\* Get if the request has a key and neither 'query' nor 'filters', and in
\* every other case a Query with Limit 1, whatever limit the caller gave;
\* once the command is answered the call resolves (with the first item
\* returned or undefined).
C29_QueryRecordCommand ==
    \A c \in 1..MaxClients :
        (/\ calls[c].op = "queryRecord"
         /\ ~TableNameRefused(request)
         /\ ~EmptyKey(request)
         /\ Compilable(request))
        => /\ Len(calls[c].sent) = 1
           /\ IF IsSome(request.key) /\ ~IsSome(request.query) /\ ~IsSome(request.filters)
              THEN calls[c].sent[1].cmd = "GetCommand"
              ELSE /\ calls[c].sent[1].cmd = "QueryCommand"
                   /\ calls[c].sent[1].input.Limit = Some(1)
           /\ (calls[c].pc = "done" /\ calls[c].answers = <<"ok">>)
                 => /\ ~FacadeOutcome(c).rejected
                    /\ \/ FacadeOutcome(c).value = None
                       \/ Len(FacadeOutcome(c).value) = 1


----------------------------------------------------------------------------
(* Bulkify: the batches against the records added *)

\* the records one add call was given, in order
AddedBy(entry) == IF entry.data.type = "array" THEN entry.data.items ELSE <<entry.data>>

\* the put requests expected under a table index, from the add calls so far
RECURSIVE AddedUnder(_, _)
AddedUnder(index, i) ==
    IF i > Len(log) THEN <<>>
    ELSE (IF log[i].index = index
          THEN [j \in 1..Len(AddedBy(log[i])) |-> [PutRequest |-> [Item |-> AddedBy(log[i])[j]]]]
          ELSE <<>>) \o AddedUnder(index, i + 1)

RECURSIVE NumberAdded(_)
NumberAdded(i) == IF i > Len(log) THEN 0 ELSE Len(AddedBy(log[i])) + NumberAdded(i + 1)

\* the put requests of the batches under a table index, batch after batch
RECURSIVE PutsUnder(_, _, _)
PutsUnder(batches, index, i) ==
    IF i > Len(batches) THEN <<>>
    ELSE (IF hasOwnProperty(batches[i].RequestItems, index)
          THEN Lookup(batches[i].RequestItems, index) ELSE <<>>)
         \o PutsUnder(batches, index, i + 1)

RECURSIVE EntriesTotal(_, _)
EntriesTotal(entries, i) ==
    IF i > Len(entries) THEN 0 ELSE Len(entries[i].v) + EntriesTotal(entries, i + 1)

BatchTotal(batch) == EntriesTotal(batch.RequestItems, 1)

RECURSIVE BatchesTotal(_, _)
BatchesTotal(batches, i) ==
    IF i > Len(batches) THEN 0 ELSE BatchTotal(batches[i]) + BatchesTotal(batches, i + 1)

BatchesMatchAdds(batches) ==
    /\ \A i \in 1..Len(batches) :
          /\ BatchTotal(batches[i]) <= bulk.size
          /\ KeySet(batches[i].RequestItems) \subseteq BulkIndexes
    /\ \A index \in BulkIndexes : PutsUnder(batches, index, 1) = AddedUnder(index, 1)
    /\ BatchesTotal(batches, 1) = NumberAdded(1)
    /\ (NumberAdded(1) = 0 => batches = <<>>)

\* C30 as stated: after any add calls the query getter's batches hold at most
\* 'size' put requests each, hold every added record once under its table
\* index in insertion order, and hold as many put requests as records were
\* added; with nothing added the list is empty.
C30_BatchesMatchAdds == BatchesMatchAdds(Bulkify_query(bulk))

\* C30 amended: the same for a size of at least 1; for a size below 1 the query
\* getter returns an empty list whatever was added.
C30_BatchesMatchAddsForPositiveSize ==
    /\ bulk.size >= 1 => BatchesMatchAdds(Bulkify_query(bulk))
    /\ bulk.size < 1 => Bulkify_query(bulk) = <<>>

\* a size of 2, records of both tables added by single and by array adds, the
\* getter read: several batches, one of them with both tables
C30_Witness ==
    /\ bulk.size = 2
    /\ \E i, j \in 1..Len(log) : log[i].data.type = "array" /\ log[j].data.type = "object"
    /\ result.op = "Bulkify.query"
    /\ result.out.value = Bulkify_query(bulk)
    /\ Len(result.out.value) >= 2
    /\ \E i \in 1..Len(result.out.value) : Len(result.out.value[i].RequestItems) = 2

====
